---------------------------- MODULE Spec2Model ----------------------------
(***************************************************************************)
(* Model of src/client/networking.c: the client side of the raylib/enet    *)
(* networking sample.  The state is the file's globals (LocalPlayerId,     *)
(* server, client, LastInputSend, Players); the actions are its public     *)
(* functions Connect, Update, Disconnect and UpdateLocalPlayer.            *)
(*                                                                         *)
(* Conventions                                                             *)
(*  - time is counted in units of 1/TicksPerSecond seconds;                 *)
(*  - a float coordinate is counted in units of 1/SubPixel pixel, so that   *)
(*    the (int16_t) cast of line 245 really truncates;                      *)
(*  - a packet is the sequence of its dataLength bytes (ev.data) followed   *)
(*    by the two bytes the allocator happens to hold behind it (ev.beyond), *)
(*    which is what a read at an index >= dataLength returns;               *)
(*  - int16 values are laid out low byte first (the host order of the       *)
(*    little-endian machines the sample is built for);                      *)
(*  - Players holds the MAX_PLAYERS slots of the array.  An access to       *)
(*    Players[MAX_PLAYERS] is outside the array: a write there changes no   *)
(*    slot of the table, a read yields an arbitrary value, and oob records  *)
(*    that the call made such an access.                                    *)
(* call, sent, released, overread and oob describe the last call only: what *)
(* it was given and what it did to the transport and to memory.             *)
(* accepted and sendTimes are history: whether an AcceptPlayer naming a     *)
(* slot of the table has been polled since the last Connect, and the        *)
(* timestamps of the last two packets sent since LocalPlayerId was set.     *)
(***************************************************************************)
EXTENDS Integers, Sequences, FiniteSets, TLC

VARIABLES LocalPlayerId, server, client, LastInputSend, Players,
          call, sent, released, overread, oob, accepted, sendTimes

vars == <<LocalPlayerId, server, client, LastInputSend, Players,
          call, sent, released, overread, oob, accepted, sendTimes>>

-----------------------------------------------------------------------------
(* Bounds of the model *)

\* time units per second
TicksPerSecond == 40
\* the largest timestamp passed to Update
MaxNow == 4
\* coordinate units per pixel
SubPixel == 2

(* Constants of networking.h, which networking.c includes.  The table is    *)
(* modelled with two slots; every definition below is written for any      *)
(* MAX_PLAYERS.                                                            *)

MAX_PLAYERS == 2
FieldSizeWidth == 800
FieldSizeHeight == 600
PlayerSize == 32

(* NetworkCommands *)

AcceptPlayer == 1
AddPlayer == 2
RemovePlayer == 3
UpdatePlayer == 4
UpdateInput == 5

\* double InputUpdateInterval = 1.0f / 20.0f
InputUpdateInterval == TicksPerSecond \div 20

\* double LastInputSend = -100
InitialLastInputSend == (0 - 100) * TicksPerSecond

NULL == "NULL"
PEER == "peer"
HOST == "host"

\* a whole number of pixels as a float
Px(n) == n * SubPixel

-----------------------------------------------------------------------------
(* Wire codec *)

\* the byte at index i of the packet's memory: data, then what lies behind it
PacketByte(ev, i) ==
    IF i < Len(ev.data) THEN ev.data[i + 1] ELSE ev.beyond[i - Len(ev.data) + 1]

\* *(int16_t*)data for the two bytes b0, b1 in host order
Int16OfBytes(b0, b1) ==
    LET u == b0 + 256 * b1 IN IF u >= 32768 THEN u - 65536 ELSE u

\* BytesOfInt16 storing the high byte first (network order)
BytesOfInt16BigEndian(v) ==
    LET u == v % 65536 IN <<u \div 256, u % 256>>

\* the two bytes *(int16_t*)p = v stores
BytesOfInt16(v) ==
    LET u == v % 65536 IN <<u % 256, u \div 256>>

\* the guard of ReadByte and ReadShort: "gone past the end"
PastEnd(offset, dataLength) == offset > dataLength

\* ReadByte: the value, the new offset, and whether a byte at an index
\* >= dataLength was accessed
ReadByte(ev, offset) ==
    IF PastEnd(offset, Len(ev.data))
    THEN [val |-> 0, off |-> offset, over |-> FALSE]
    ELSE [val |-> PacketByte(ev, offset), off |-> offset + 1,
          over |-> offset >= Len(ev.data)]

ReadShort(ev, offset) ==
    IF PastEnd(offset, Len(ev.data))
    THEN [val |-> 0, off |-> offset, over |-> FALSE]
    ELSE [val |-> Int16OfBytes(PacketByte(ev, offset), PacketByte(ev, offset + 1)),
          off |-> offset + 2,
          over |-> offset + 1 >= Len(ev.data)]

\* ReadPosition: x then y, each int16 converted to float
ReadPosition(ev, offset) ==
    LET x == ReadShort(ev, offset)
        y == ReadShort(ev, x.off)
    IN [val |-> <<Px(x.val), Px(y.val)>>, off |-> y.off, over |-> x.over \/ y.over]

\* (int16_t)f for a float f: the fraction is dropped (towards zero)
TruncToInt(f) == IF f >= 0 THEN f \div SubPixel ELSE 0 - ((0 - f) \div SubPixel)

\* buffer[5] of Update: the tag, then x and y as int16
UpdateInputBuffer(pos) ==
    <<UpdateInput>> \o BytesOfInt16(TruncToInt(pos[1])) \o BytesOfInt16(TruncToInt(pos[2]))

-----------------------------------------------------------------------------
(* Players *)

InTable(id) == id \in 0..(MAX_PLAYERS - 1)

RemotePlayer(active, pos) == [Active |-> active, Position |-> pos]

\* IgnoreUpdatePlayer without the test of the Active flag
IgnoreUpdatePlayerAnySlot(P, remotePlayer, local) ==
    remotePlayer >= MAX_PLAYERS \/ remotePlayer = local

\* IgnoreRemovePlayer without the test for the local player
IgnoreRemovePlayerAnyId(remotePlayer, local) ==
    remotePlayer >= MAX_PLAYERS

\* the guards of the three handlers
IgnoreAddPlayer(remotePlayer, local) ==
    remotePlayer >= MAX_PLAYERS \/ remotePlayer = local

IgnoreRemovePlayer(remotePlayer, local) ==
    remotePlayer >= MAX_PLAYERS \/ remotePlayer = local

IgnoreUpdatePlayer(P, remotePlayer, local) ==
    remotePlayer >= MAX_PLAYERS \/ remotePlayer = local \/ ~P[remotePlayer].Active

\* HandleAddPlayer storing the position without setting Active
HandleAddPlayerPositionOnly(P, local, ev, offset) ==
    LET r == ReadByte(ev, offset) IN
    IF IgnoreAddPlayer(r.val, local)
    THEN [players |-> P, id |-> r.val, over |-> r.over]
    ELSE LET pos == ReadPosition(ev, r.off) IN
         [players |-> [P EXCEPT ![r.val].Position = pos.val],
          id |-> r.val, over |-> r.over \/ pos.over]

\* each handler yields the table, the id byte it read and whether it read
\* behind the packet
HandleAddPlayer(P, local, ev, offset) ==
    LET r == ReadByte(ev, offset) IN
    IF IgnoreAddPlayer(r.val, local)
    THEN [players |-> P, id |-> r.val, over |-> r.over]
    ELSE LET pos == ReadPosition(ev, r.off) IN
         [players |-> [P EXCEPT ![r.val] = RemotePlayer(TRUE, pos.val)],
          id |-> r.val, over |-> r.over \/ pos.over]

HandleRemovePlayer(P, local, ev, offset) ==
    LET r == ReadByte(ev, offset) IN
    IF IgnoreRemovePlayer(r.val, local)
    THEN [players |-> P, id |-> r.val, over |-> r.over]
    ELSE [players |-> [P EXCEPT ![r.val].Active = FALSE],
          id |-> r.val, over |-> r.over]

HandleUpdatePlayer(P, local, ev, offset) ==
    LET r == ReadByte(ev, offset) IN
    IF IgnoreUpdatePlayer(P, r.val, local)
    THEN [players |-> P, id |-> r.val, over |-> r.over]
    ELSE LET pos == ReadPosition(ev, r.off) IN
         [players |-> [P EXCEPT ![r.val].Position = pos.val],
          id |-> r.val, over |-> r.over \/ pos.over]

\* GetPlayerPos without the test of the Active flag
GetPlayerPosAnySlot(id) ==
    IF id < 0 \/ id >= MAX_PLAYERS
    THEN <<FALSE>>
    ELSE <<TRUE, Players[id].Position>>

\* GetPlayerPos: <<TRUE, position>> or <<FALSE>>
GetPlayerPos(id) ==
    IF id < 0 \/ id >= MAX_PLAYERS \/ ~Players[id].Active
    THEN <<FALSE>>
    ELSE <<TRUE, Players[id].Position>>

\* Connected()
Connected == server # NULL /\ LocalPlayerId >= 0

GetLocalPlayerId == LocalPlayerId

-----------------------------------------------------------------------------
(* Update *)

\* TimeToSend with >= for >
TimeToSendAtInterval(id, now, lastSend) ==
    id >= 0 /\ now - lastSend >= InputUpdateInterval

\* line 240: accepted, and the clock says it is time to send
TimeToSend(id, now, lastSend) ==
    id >= 0 /\ now - lastSend > InputUpdateInterval

\* AcceptRejected with <= for <
AcceptRejectedFromZero(id) == id <= 0 \/ id > MAX_PLAYERS

\* line 292: the id of an AcceptPlayer "does not make sense"
AcceptRejected(id) == id < 0 \/ id > MAX_PLAYERS

\* line 299
ForcedLastInputSend == 0 - InputUpdateInterval

\* line 308
SpawnPosition == <<Px(100), Px(100)>>

\* line 274
TooShort(dataLength) == dataLength < 1

\* NotYetAccepted taking player 0 for unset as well
NotYetAcceptedUpToZero(id) == id <= 0

\* NotYetAccepted with 0 for -1
NotYetAcceptedZero(id) == id = 0

\* line 284: the server has not accepted us yet
NotYetAccepted(id) == id = -1

\* Disconnected without line 337
DisconnectedKeepingId == [server |-> NULL, id |-> LocalPlayerId]

\* lines 336-337: server and LocalPlayerId after a DISCONNECT event
Disconnected == [server |-> NULL, id |-> -1]

NoCall == [op |-> "none", now |-> 0, type |-> "NONE", len |-> 0, cmd |-> -1,
           id |-> -1, wasId |-> -1]

\* the RECEIVE case of Update's switch (lines 271-332) from the state after
\* the send: the new LocalPlayerId, LastInputSend and Players, the command
\* and id bytes read (-1: not read), the number of enet_packet_destroy
\* calls, and the two memory flags
Receive(ev, lastSend) ==
    IF TooShort(Len(ev.data))
    THEN [id |-> LocalPlayerId, lis |-> lastSend, players |-> Players,
          cmd |-> -1, idByte |-> -1, destroyed |-> 0, over |-> FALSE, oob |-> FALSE]
    ELSE
    LET c == ReadByte(ev, 0) IN
    IF NotYetAccepted(LocalPlayerId)
    THEN IF c.val = AcceptPlayer
         THEN LET r == ReadByte(ev, c.off) IN
              IF AcceptRejected(r.val)
              THEN [id |-> -1, lis |-> lastSend, players |-> Players,
                    cmd |-> c.val, idByte |-> r.val, destroyed |-> 0,
                    over |-> c.over \/ r.over, oob |-> FALSE]
              ELSE [id |-> r.val, lis |-> ForcedLastInputSend,
                    players |-> IF InTable(r.val)
                                THEN [Players EXCEPT ![r.val] =
                                         RemotePlayer(TRUE, SpawnPosition)]
                                ELSE Players,
                    cmd |-> c.val, idByte |-> r.val, destroyed |-> 1,
                    over |-> c.over \/ r.over, oob |-> ~InTable(r.val)]
         ELSE [id |-> -1, lis |-> lastSend, players |-> Players,
               cmd |-> c.val, idByte |-> -1, destroyed |-> 1,
               over |-> c.over, oob |-> FALSE]
    ELSE
    LET h == CASE c.val = AddPlayer -> HandleAddPlayer(Players, LocalPlayerId, ev, c.off)
               [] c.val = RemovePlayer -> HandleRemovePlayer(Players, LocalPlayerId, ev, c.off)
               [] c.val = UpdatePlayer -> HandleUpdatePlayer(Players, LocalPlayerId, ev, c.off)
               [] OTHER -> [players |-> Players, id |-> -1, over |-> FALSE]
    IN [id |-> LocalPlayerId, lis |-> lastSend, players |-> h.players,
        cmd |-> c.val, idByte |-> h.id, destroyed |-> 1,
        over |-> c.over \/ h.over, oob |-> FALSE]

\* the packet is an AcceptPlayer that names a slot of the table
AcceptsIntoTable(ev) ==
    /\ ev.type = "RECEIVE" /\ Len(ev.data) >= 2
    /\ ev.data[1] = AcceptPlayer /\ InTable(ev.data[2])

\* the timestamps of the last two sends, t being the newest
LastTwo(times, t) ==
    IF Len(times) < 2 THEN Append(times, t) ELSE <<times[2], t>>

\* what a read of Players[MAX_PLAYERS].Position may yield
StrayPositions == {<<0, 0>>, <<Px(-3) - 1, Px(9) + 1>>}

\* Update(now), with ev the event enet_host_service hands out
Update(now, ev) ==
    LET info == [op |-> "Update", now |-> now, type |-> ev.type,
                 len |-> Len(ev.data), cmd |-> -1, id |-> -1,
                 wasId |-> LocalPlayerId]
    IN
    IF server = NULL
    THEN /\ call' = [info EXCEPT !.type = "NONE", !.len = 0]
         /\ sent' = <<>>
         /\ released' = 0
         /\ overread' = FALSE
         /\ oob' = FALSE
         /\ UNCHANGED <<LocalPlayerId, server, client, LastInputSend, Players>>
         /\ UNCHANGED <<accepted, sendTimes>>
    ELSE
    LET send     == TimeToSend(LocalPlayerId, now, LastInputSend)
        lastSend == IF send THEN now ELSE LastInputSend
        sendOob  == send /\ ~InTable(LocalPlayerId)
        times    == IF send THEN LastTwo(sendTimes, now) ELSE sendTimes
    IN
    /\ accepted' = (accepted \/ AcceptsIntoTable(ev))
    /\ IF send
       THEN IF InTable(LocalPlayerId)
            THEN sent' = <<UpdateInputBuffer(Players[LocalPlayerId].Position)>>
            ELSE \E stray \in StrayPositions : sent' = <<UpdateInputBuffer(stray)>>
       ELSE sent' = <<>>
    /\ client' = client
    /\ CASE ev.type = "RECEIVE" ->
              LET r == Receive(ev, lastSend) IN
              /\ LocalPlayerId' = r.id
              /\ LastInputSend' = r.lis
              /\ Players' = r.players
              /\ server' = server
              /\ call' = [info EXCEPT !.cmd = r.cmd, !.id = r.idByte]
              /\ released' = r.destroyed
              /\ overread' = r.over
              /\ oob' = (sendOob \/ r.oob)
              /\ sendTimes' = IF r.id # LocalPlayerId THEN <<>> ELSE times
         [] ev.type = "DISCONNECT" ->
              /\ server' = Disconnected.server
              /\ LocalPlayerId' = Disconnected.id
              /\ LastInputSend' = lastSend
              /\ Players' = Players
              /\ call' = info
              /\ released' = 0
              /\ overread' = FALSE
              /\ oob' = sendOob
              /\ sendTimes' = <<>>
         [] OTHER ->
              /\ LastInputSend' = lastSend
              /\ UNCHANGED <<LocalPlayerId, server, Players>>
              /\ call' = info
              /\ released' = 0
              /\ overread' = FALSE
              /\ oob' = sendOob
              /\ sendTimes' = times

-----------------------------------------------------------------------------
(* Connect, Disconnect, UpdateLocalPlayer *)

Connect ==
    /\ client' = HOST
    /\ server' = PEER
    /\ call' = [NoCall EXCEPT !.op = "Connect", !.wasId = LocalPlayerId]
    /\ sent' = <<>>
    /\ released' = 0
    /\ overread' = FALSE
    /\ oob' = FALSE
    /\ accepted' = FALSE
    /\ UNCHANGED <<LocalPlayerId, LastInputSend, Players, sendTimes>>

\* Disconnect emptying the table as well
DisconnectClearingPlayers ==
    /\ client' = NULL
    /\ server' = NULL
    /\ call' = [NoCall EXCEPT !.op = "Disconnect", !.wasId = LocalPlayerId]
    /\ sent' = <<>>
    /\ released' = 0
    /\ overread' = FALSE
    /\ oob' = FALSE
    /\ Players' = [i \in DOMAIN Players |-> RemotePlayer(FALSE, Players[i].Position)]
    /\ UNCHANGED <<LocalPlayerId, LastInputSend, accepted, sendTimes>>

Disconnect ==
    /\ client' = NULL
    /\ server' = NULL
    /\ call' = [NoCall EXCEPT !.op = "Disconnect", !.wasId = LocalPlayerId]
    /\ sent' = <<>>
    /\ released' = 0
    /\ overread' = FALSE
    /\ oob' = FALSE
    /\ UNCHANGED <<LocalPlayerId, LastInputSend, Players, accepted, sendTimes>>

\* ClampToField with the field's size for the largest position
ClampToFieldEdge(pos) ==
    LET x1 == IF pos[1] < 0 THEN 0 ELSE pos[1]
        y1 == IF pos[2] < 0 THEN 0 ELSE pos[2]
        x2 == IF x1 > Px(FieldSizeWidth) THEN Px(FieldSizeWidth) ELSE x1
        y2 == IF y1 > Px(FieldSizeHeight) THEN Px(FieldSizeHeight) ELSE y1
    IN <<x2, y2>>

\* lines 384-394: the four clamps, in the code's order
ClampToField(pos) ==
    LET x1 == IF pos[1] < 0 THEN 0 ELSE pos[1]
        y1 == IF pos[2] < 0 THEN 0 ELSE pos[2]
        x2 == IF x1 > Px(FieldSizeWidth - PlayerSize)
              THEN Px(FieldSizeWidth - PlayerSize) ELSE x1
        y2 == IF y1 > Px(FieldSizeHeight - PlayerSize)
              THEN Px(FieldSizeHeight - PlayerSize) ELSE y1
    IN <<x2, y2>>

Vector2Add(a, b) == <<a[1] + b[1], a[2] + b[2]>>

NotAccepted(id) == id < 0

UpdateLocalPlayer(movementDelta) ==
    /\ call' = [NoCall EXCEPT !.op = "UpdateLocalPlayer", !.wasId = LocalPlayerId]
    /\ sent' = <<>>
    /\ released' = 0
    /\ overread' = FALSE
    /\ UNCHANGED <<LocalPlayerId, server, client, LastInputSend>>
    /\ UNCHANGED <<accepted, sendTimes>>
    /\ IF NotAccepted(LocalPlayerId)
       THEN /\ Players' = Players
            /\ oob' = FALSE
       ELSE IF InTable(LocalPlayerId)
       THEN /\ Players' = [Players EXCEPT ![LocalPlayerId].Position =
                              ClampToField(Vector2Add(@, movementDelta))]
            /\ oob' = FALSE
       ELSE /\ Players' = Players
            /\ oob' = TRUE

-----------------------------------------------------------------------------
(* The initial state: the globals' initialisers *)

Init ==
    /\ LocalPlayerId = -1
    /\ server = NULL
    /\ client = NULL
    /\ LastInputSend = InitialLastInputSend
    /\ Players = [i \in 0..(MAX_PLAYERS - 1) |-> RemotePlayer(FALSE, <<0, 0>>)]
    /\ call = NoCall
    /\ sent = <<>>
    /\ released = 0
    /\ overread = FALSE
    /\ oob = FALSE
    /\ accepted = FALSE
    /\ sendTimes = <<>>

-----------------------------------------------------------------------------
(* Inputs *)

\* id bytes: every slot, the first id behind the table, and one more
IdBytes == 0..(MAX_PLAYERS + 1)

NoBeyond == <<0, 0>>

Received(data, beyond) == [type |-> "RECEIVE", data |-> data, beyond |-> beyond]

Polled(type) == [type |-> type, data |-> <<>>, beyond |-> NoBeyond]

\* positions a server sends
WirePositions == {<<7, -2>>, <<300, 40>>}

PositionBytes(p) == BytesOfInt16(p[1]) \o BytesOfInt16(p[2])

\* packets with the payload the protocol gives their tag, an unknown tag 9,
\* and the empty packet
WholePackets ==
    {<<>>, <<UpdateInput, 0, 0, 0, 0>>, <<9>>}
    \cup {<<AcceptPlayer, i>> : i \in IdBytes}
    \cup {<<RemovePlayer, i>> : i \in IdBytes}
    \cup {<<c, i>> \o PositionBytes(p) :
            c \in {AddPlayer, UpdatePlayer}, i \in IdBytes, p \in WirePositions}

Events ==
    {Polled("NONE"), Polled("CONNECT"), Polled("DISCONNECT")}
    \cup {Received(d, NoBeyond) : d \in WholePackets}

Times == {MaxNow}

Deltas == {<<Px(-105), Px(600)>>}

Tick == \E now \in Times, ev \in Events : Update(now, ev)

Move == \E d \in Deltas : UpdateLocalPlayer(d)

Next == Connect \/ Disconnect \/ Tick \/ Move

\* the protocol: whole packets of every kind
Spec == Init /\ [][Next]_vars

-----------------------------------------------------------------------------
(* Truncated packets: every prefix of a whole packet, in front of either of *)
(* two memory contents                                                      *)

Beyonds == {<<0, 0>>, <<255, 255>>}

Prefixes(d) == {SubSeq(d, 1, n) : n \in 0..Len(d)}

CutWhole ==
    {<<AcceptPlayer, 0>>, <<AcceptPlayer, MAX_PLAYERS>>, <<RemovePlayer, 1>>}
    \cup {<<c, 1>> \o PositionBytes(<<7, -2>>) : c \in {AddPlayer, UpdatePlayer}}

CutPackets == UNION {Prefixes(d) : d \in CutWhole}

WireEvents ==
    {Polled("DISCONNECT")}
    \cup {Received(d, b) : d \in CutPackets, b \in Beyonds}

TickWire == \E now \in Times, ev \in WireEvents : Update(now, ev)

NextWire == Connect \/ TickWire

SpecWire == Init /\ [][NextWire]_vars

-----------------------------------------------------------------------------
(* The clock: every timestamp, acceptance and disconnection only *)

AllTimes == 0..MaxNow

ClockEvents ==
    {Polled("NONE"), Polled("DISCONNECT"),
     Received(<<AcceptPlayer, 0>>, NoBeyond),
     Received(<<AcceptPlayer, MAX_PLAYERS>>, NoBeyond)}

TickClock == \E now \in AllTimes, ev \in ClockEvents : Update(now, ev)

NextClock == Connect \/ Disconnect \/ TickClock

SpecClock == Init /\ [][NextClock]_vars

-----------------------------------------------------------------------------
(* Movement: steps that leave the field on either side of either axis, by *)
(* whole pixels and by fractions                                          *)

FieldDeltas ==
    {<<Px(-105), Px(600)>>, <<Px(800), Px(-700)>>,
     <<Px(-300) - 1, Px(100) + 1>>}

FieldEvents ==
    {Polled("DISCONNECT")}
    \cup {Received(<<AcceptPlayer, i>>, NoBeyond) : i \in IdBytes}

TickField == \E now \in Times, ev \in FieldEvents : Update(now, ev)

MoveField == \E d \in FieldDeltas : UpdateLocalPlayer(d)

NextField == Connect \/ Disconnect \/ TickField \/ MoveField

SpecField == Init /\ [][NextField]_vars

-----------------------------------------------------------------------------
(* Update's buffer[5] for positions over the whole int16 range: the session *)
(* starts accepted as player 0, with the local Position drawn from          *)
(* CodecPositions, and Update sends it.                                     *)

\* coordinates: the int16 limits, byte borders, and fractions on both sides
\* of zero
CodecCoords ==
    {Px(-32768) - 1, Px(-32768), Px(-256) - 1, Px(-1) - 1, -1,
     0, 1, Px(255) + 1, Px(256), Px(32767) + 1}

CodecPositions == CodecCoords \X CodecCoords

InitCodec ==
    /\ LocalPlayerId = 0
    /\ server = PEER
    /\ client = HOST
    /\ LastInputSend = ForcedLastInputSend
    /\ \E pos \in CodecPositions :
           Players = [i \in 0..(MAX_PLAYERS - 1) |->
                         IF i = 0 THEN RemotePlayer(TRUE, pos)
                         ELSE RemotePlayer(FALSE, <<0, 0>>)]
    /\ call = NoCall
    /\ sent = <<>>
    /\ released = 0
    /\ overread = FALSE
    /\ oob = FALSE
    /\ accepted = TRUE
    /\ sendTimes = <<>>

TickCodec == \E now \in Times : Update(now, Polled("NONE"))

NextCodec == TickCodec

SpecCodec == InitCodec /\ [][NextCodec]_vars

-----------------------------------------------------------------------------
(* Properties *)

\* the program's own variables, without the record of the last call
globals == <<LocalPlayerId, server, client, LastInputSend, Players>>

\* the last call was an Update that polled a packet
Polling(c) == c.op = "Update" /\ c.type = "RECEIVE"

\* C1: in every reachable state LocalPlayerId is -1 or a slot of the table,
\* 0..MAX_PLAYERS-1.
C1_LocalPlayerIdInTable == LocalPlayerId = -1 \/ InTable(LocalPlayerId)

\* C2: an Update that sends nothing and handles a command whose id byte is
\* not in 0..MAX_PLAYERS-1 leaves every slot as it was and accesses no
\* element outside the table.
C2_ForeignIdTouchesNothing ==
    [][(Polling(call') /\ sent' = <<>> /\ call'.id >= MAX_PLAYERS)
          => (Players' = Players /\ ~oob')]_vars

\* C3: an AcceptPlayer with an id of the table, polled while LocalPlayerId is
\* -1, sets LocalPlayerId to that id and makes that slot active at (100,100);
\* and once LocalPlayerId is set, no call changes it except an Update that
\* polls a DISCONNECT event, which sets it to -1.
C3_AcceptJoinsOnce ==
    [][/\ (Polling(call') /\ LocalPlayerId = -1 /\ call'.cmd = AcceptPlayer
           /\ call'.len >= 2 /\ InTable(call'.id))
          => /\ LocalPlayerId' = call'.id
             /\ Players'[call'.id] = [Active |-> TRUE, Position |-> <<Px(100), Px(100)>>]
             /\ \A i \in DOMAIN Players : i # call'.id => Players'[i] = Players[i]
       /\ LocalPlayerId >= 0
          => \/ LocalPlayerId' = LocalPlayerId
             \/ (call'.op = "Update" /\ call'.type = "DISCONNECT" /\ LocalPlayerId' = -1)
      ]_vars

\* C3, reached: an Update has just taken the session from unjoined to
\* joined on an AcceptPlayer for a slot of the table.
C3_Joined ==
    /\ Polling(call) /\ call.cmd = AcceptPlayer /\ call.wasId = -1
    /\ InTable(LocalPlayerId) /\ call.id = LocalPlayerId
    /\ Players[LocalPlayerId] = [Active |-> TRUE, Position |-> <<Px(100), Px(100)>>]

\* C4: while LocalPlayerId is -1, a polled packet whose command byte is not
\* AcceptPlayer changes none of LocalPlayerId, server, client, LastInputSend
\* and Players.
C4_UnjoinedIgnoresOthers ==
    [][(Polling(call') /\ LocalPlayerId = -1 /\ call'.cmd # -1
           /\ call'.cmd # AcceptPlayer)
          => UNCHANGED globals]_vars

\* C4, reached: an AddPlayer for a slot of the table was polled while
\* unjoined, and the session is still unjoined.
C4_AddWhileUnjoined ==
    /\ Polling(call) /\ call.wasId = -1 /\ call.cmd = AddPlayer
    /\ call.len = 6 /\ LocalPlayerId = -1

\* C5: an Update that polls a packet calls enet_packet_destroy on it exactly
\* once.
C5_PacketReleasedOnce == Polling(call) => released = 1

\* C6: after Disconnect there is no peer and LocalPlayerId is -1.
C6_DisconnectResets ==
    call.op = "Disconnect" => (server = NULL /\ client = NULL /\ LocalPlayerId = -1)

\* C7: an Update sends at most one packet, and sends one only if
\* LocalPlayerId >= 0 and now - LastInputSend > InputUpdateInterval; a send
\* sets LastInputSend to now, and an Update called with now = LastInputSend,
\* as after a send at that same now, sends nothing.
C7_SendThrottled ==
    [][call'.op = "Update"
          => /\ Len(sent') <= 1
             /\ sent' # <<>>
                => /\ server # NULL /\ LocalPlayerId >= 0
                   /\ call'.now - LastInputSend > InputUpdateInterval
                   /\ LastInputSend' = call'.now
             /\ call'.now = LastInputSend => sent' = <<>>
             /\ (call.op = "Update" /\ sent # <<>> /\ call'.now = call.now)
                => sent' = <<>>
      ]_vars

\* C7, reached: a joined, connected session whose last Update sent nothing
\* because it was called with the timestamp of the send before it.
C7_SecondTickSilent ==
    /\ call.op = "Update" /\ sent = <<>>
    /\ server # NULL /\ call.wasId >= 0 /\ LocalPlayerId >= 0
    /\ LastInputSend = call.now

\* C8: an Update that polls a DISCONNECT event leaves LocalPlayerId = -1 and
\* no peer, so Connected() is false; while there is no peer an Update
\* changes nothing, sends nothing and polls nothing, and only Connect
\* brings a peer back.
C8_DisconnectEventClears ==
    [][/\ (call'.op = "Update" /\ call'.type = "DISCONNECT")
          => (LocalPlayerId' = -1 /\ server' = NULL /\ (~Connected)')
       /\ (server = NULL /\ call'.op = "Update")
          => (UNCHANGED globals /\ sent' = <<>> /\ released' = 0
              /\ call'.type = "NONE")
       /\ (server = NULL /\ server' # NULL) => call'.op = "Connect"
      ]_vars

\* C8, reached: a joined session has just polled a DISCONNECT event.
C8_Dropped ==
    /\ call.op = "Update" /\ call.type = "DISCONNECT" /\ call.wasId >= 0
    /\ LocalPlayerId = -1 /\ server = NULL

\* C9: no Update reads a byte of a packet at an index >= its dataLength.
C9_NoReadBehindPacket == ~overread

\* C10: after UpdateLocalPlayer with LocalPlayerId in the table, the local
\* slot's position is within [0, FieldSizeWidth - PlayerSize] x
\* [0, FieldSizeHeight - PlayerSize] and no other slot has changed; a move
\* to (-5, 700) ends at (0, 568); with LocalPlayerId < 0 the call changes
\* nothing.
C10_MovementStaysInField ==
    [][call'.op = "UpdateLocalPlayer"
          => /\ InTable(LocalPlayerId)
                => /\ Players'[LocalPlayerId].Position[1] \in
                          0..Px(FieldSizeWidth - PlayerSize)
                   /\ Players'[LocalPlayerId].Position[2] \in
                          0..Px(FieldSizeHeight - PlayerSize)
                   /\ Players'[LocalPlayerId].Active = Players[LocalPlayerId].Active
                   /\ \A i \in DOMAIN Players :
                          i # LocalPlayerId => Players'[i] = Players[i]
             /\ \A d \in FieldDeltas :
                   (/\ InTable(LocalPlayerId)
                    /\ Vector2Add(Players[LocalPlayerId].Position, d) = <<Px(-5), Px(700)>>
                    /\ UpdateLocalPlayer(d))
                   => Players'[LocalPlayerId].Position = <<0, Px(568)>>
             /\ LocalPlayerId < 0 => UNCHANGED globals
      ]_vars

\* C10, reached: the local player has just been moved to (-5, 700) and
\* stands at (0, 568).
C10_ClampedAtCorner ==
    /\ call.op = "UpdateLocalPlayer" /\ InTable(LocalPlayerId)
    /\ Players[LocalPlayerId].Active
    /\ Players[LocalPlayerId].Position = <<0, Px(568)>>

\* the session has been accepted: LocalPlayerId is set
Joined == LocalPlayerId >= 0

\* C11: while LocalPlayerId is set, an Update that polls a RemovePlayer for
\* a slot of the table other than the local one leaves the slot's Position
\* as it was and makes GetPlayerPos(id) answer false; and as long as
\* LocalPlayerId is set, GetPlayerPos of a slot other than the local one
\* goes from false to true only in an Update that polls an AddPlayer for
\* that slot.
C11_RemovedUntilAdded ==
    [][Joined =>
          /\ \A i \in DOMAIN Players :
                (/\ Polling(call') /\ call'.cmd = RemovePlayer
                 /\ call'.id = i /\ i # LocalPlayerId)
                => /\ GetPlayerPos(i)' = <<FALSE>>
                   /\ Players'[i].Position = Players[i].Position
          /\ \A i \in DOMAIN Players :
                (/\ i # LocalPlayerId
                 /\ GetPlayerPos(i) = <<FALSE>>
                 /\ GetPlayerPos(i)' # <<FALSE>>)
                => /\ Polling(call') /\ call'.cmd = AddPlayer /\ call'.id = i
      ]_vars

\* C11, reached: a RemovePlayer has just been handled for a remote slot that
\* holds the position an earlier AddPlayer gave it, and GetPlayerPos
\* answers false for it.
C11_RemovedKeepsPosition ==
    /\ Polling(call) /\ call.cmd = RemovePlayer
    /\ call.wasId >= 0 /\ InTable(call.id) /\ call.id # call.wasId
    /\ Players[call.id].Position = <<Px(300), Px(40)>>
    /\ GetPlayerPos(call.id) = <<FALSE>>

\* C12: the Update that follows the acceptance into a slot of the table,
\* the session still being connected, sends an UpdateInput whatever its
\* timestamp is.
C12_NextUpdateSends ==
    [][(/\ Polling(call) /\ call.cmd = AcceptPlayer /\ call.wasId = -1
        /\ InTable(LocalPlayerId) /\ Connected
        /\ call'.op = "Update")
       => /\ sent' # <<>>
          /\ sent'[1][1] = UpdateInput
      ]_vars

\* C13: the packet Update sends for a local position whose truncated
\* components fit in int16 has five bytes; reading it as Update reads a
\* packet, ReadByte then ReadShort twice, gives the tag UpdateInput and the
\* two components with their fractions dropped towards zero, and reads
\* nothing behind the packet.
C13_UpdateInputRoundTrip ==
    sent # <<>> =>
        LET pos == Players[LocalPlayerId].Position
            ev  == Received(sent[1], NoBeyond)
            tag == ReadByte(ev, 0)
            x   == ReadShort(ev, tag.off)
            y   == ReadShort(ev, x.off)
            Dropped(v, f) ==
                IF f >= 0 THEN Px(v) <= f /\ f < Px(v + 1)
                ELSE Px(v - 1) < f /\ f <= Px(v)
        IN /\ Len(sent[1]) = 5
           /\ tag.val = UpdateInput
           /\ Dropped(x.val, pos[1])
           /\ Dropped(y.val, pos[2])
           /\ y.off = 5
           /\ ~(tag.over \/ x.over \/ y.over)

\* C13, reached: the position (-1.5, 32767.5) has been sent as
\* 5, FF FF, FF 7F.
C13_NegativeAndLargest ==
    /\ call.op = "Update"
    /\ Players[LocalPlayerId].Position = <<Px(-1) - 1, Px(32767) + 1>>
    /\ sent = << <<UpdateInput, 255, 255, 255, 127>> >>

\* LastInputSend after an Update at time now: the time of the send if the
\* call has sent, and what it was if not
AfterSend(now) == IF sent' # <<>> THEN now ELSE LastInputSend

\* C14: on a connection with LocalPlayerId set, an Update that polls an
\* AddPlayer for a slot i of the table other than the local one, with
\* position p, leaves slot i active at exactly p, whatever it held, and
\* changes no other slot; LocalPlayerId, server and client are unchanged and
\* handling the packet does not change LastInputSend.
C14_AddPlayerSetsSlot ==
    [][\A i \in DOMAIN Players, p \in WirePositions, now \in Times :
          (/\ Joined /\ server # NULL /\ i # LocalPlayerId
           /\ Update(now, Received(<<AddPlayer, i>> \o PositionBytes(p), NoBeyond)))
          => /\ Players' = [Players EXCEPT
                               ![i] = RemotePlayer(TRUE, <<Px(p[1]), Px(p[2])>>)]
             /\ LocalPlayerId' = LocalPlayerId
             /\ server' = server
             /\ client' = client
             /\ LastInputSend' = AfterSend(now)
      ]_vars

\* C14, reached: an AddPlayer for a remote slot has just been handled, and
\* the slot is active at (7, -2).
C14_Added ==
    /\ Polling(call) /\ call.cmd = AddPlayer
    /\ call.wasId >= 0 /\ InTable(call.id) /\ call.id # call.wasId
    /\ Players[call.id] = RemotePlayer(TRUE, <<Px(7), Px(-2)>>)

\* C15: on a connection with LocalPlayerId set, an Update that polls an
\* UpdatePlayer changes no slot's Active flag; addressed to an inactive
\* slot it changes nothing in the table; addressed to an active slot i of
\* the table other than the local one, with position p, it sets that slot's
\* Position to p and changes no other slot. LocalPlayerId, server and
\* client are unchanged and handling the packet does not change
\* LastInputSend.
C15_UpdatePlayerMovesActiveOnly ==
    [][\A i \in IdBytes, p \in WirePositions, now \in Times :
          (/\ Joined /\ server # NULL
           /\ Update(now, Received(<<UpdatePlayer, i>> \o PositionBytes(p), NoBeyond)))
          => /\ \A j \in DOMAIN Players : Players'[j].Active = Players[j].Active
             /\ (InTable(i) /\ ~Players[i].Active) => Players' = Players
             /\ (InTable(i) /\ Players[i].Active /\ i # LocalPlayerId)
                => Players' = [Players EXCEPT
                                  ![i].Position = <<Px(p[1]), Px(p[2])>>]
             /\ LocalPlayerId' = LocalPlayerId
             /\ server' = server
             /\ client' = client
             /\ LastInputSend' = AfterSend(now)
      ]_vars

\* C15, reached: an UpdatePlayer has just been handled for a remote slot
\* that was removed after an AddPlayer had placed it at (7, -2); the slot is
\* still inactive and still holds (7, -2).
C15_NoResurrection ==
    /\ Polling(call) /\ call.cmd = UpdatePlayer
    /\ call.wasId >= 0 /\ InTable(call.id) /\ call.id # call.wasId
    /\ Players[call.id] = RemotePlayer(FALSE, <<Px(7), Px(-2)>>)

\* C15, reached: an UpdatePlayer has just moved an active remote slot to
\* (300, 40).
C15_Moved ==
    /\ Polling(call) /\ call.cmd = UpdatePlayer
    /\ call.wasId >= 0 /\ InTable(call.id) /\ call.id # call.wasId
    /\ Players[call.id] = RemotePlayer(TRUE, <<Px(300), Px(40)>>)

\* C16: on a connection with LocalPlayerId set, an Update that polls a
\* packet whose tag is none of AddPlayer, RemovePlayer and UpdatePlayer (an
\* AcceptPlayer again, an UpdateInput, an unknown tag) leaves LocalPlayerId
\* and every slot of Players as they were, and handling the packet does not
\* change LastInputSend: a second AcceptPlayer, whatever id it names, does
\* not reassign the local id.
C16_OtherTagsIgnored ==
    [][\A now \in Times, ev \in Events :
          (/\ Joined /\ server # NULL
           /\ ev.type = "RECEIVE" /\ Len(ev.data) >= 1
           /\ ev.data[1] \notin {AddPlayer, RemovePlayer, UpdatePlayer}
           /\ Update(now, ev))
          => /\ LocalPlayerId' = LocalPlayerId
             /\ Players' = Players
             /\ LastInputSend' = AfterSend(now)
             /\ server' = server
             /\ client' = client
      ]_vars

\* C16, reached: accepted as player 0, the session has polled another
\* AcceptPlayer and is still player 0, with LastInputSend the time of its
\* last send.
C16_SecondAccept ==
    /\ Polling(call) /\ call.cmd = AcceptPlayer
    /\ call.wasId = 0 /\ LocalPlayerId = 0
    /\ LastInputSend = MaxNow
    /\ Players[0].Active

\* C17: after every step, if LocalPlayerId names a slot of the table, that
\* slot is active; and while LocalPlayerId names a slot of the table, no
\* Update changes that slot, whatever packet it polls, AddPlayer,
\* RemovePlayer and UpdatePlayer for the local id included: a step that
\* changes the slot is an UpdateLocalPlayer. (The acceptance writes the slot
\* when it sets LocalPlayerId.)
C17_LocalSlotOwned ==
    [][/\ InTable(LocalPlayerId') => Players'[LocalPlayerId'].Active
       /\ InTable(LocalPlayerId) =>
             /\ call'.op = "Update"
                => Players'[LocalPlayerId] = Players[LocalPlayerId]
             /\ Players'[LocalPlayerId] # Players[LocalPlayerId]
                => call'.op = "UpdateLocalPlayer"
      ]_vars

\* C17, reached: a RemovePlayer for the local id has just been handled and
\* the local slot is still active where the acceptance placed it.
C17_RemoveOfLocalIgnored ==
    /\ Polling(call) /\ call.cmd = RemovePlayer
    /\ InTable(call.id) /\ call.id = call.wasId /\ LocalPlayerId = call.id
    /\ Players[LocalPlayerId] = RemotePlayer(TRUE, SpawnPosition)

\* C18: on every connection, Connected() is true and an UpdateInput is sent
\* only after an AcceptPlayer naming a slot of the table has been polled on
\* that connection, whatever calls of Connect, Update and Disconnect came
\* before it.
C18_NothingBeforeAcceptance ==
    (Connected \/ sent # <<>>) => accepted

\* C19: of two successive UpdateInput packets sent without LocalPlayerId
\* having been reset or set in between, the second is sent at a timestamp
\* more than InputUpdateInterval after the first's, however many calls of
\* Update lie between them and in whatever order their timestamps come.
C19_SendsApart ==
    Len(sendTimes) = 2 => sendTimes[2] - sendTimes[1] > InputUpdateInterval

\* C19, reached: two successive packets have been sent, the second as soon
\* after the first as the timestamps allow.
C19_TwoSends ==
    /\ call.op = "Update" /\ sent # <<>>
    /\ Len(sendTimes) = 2
    /\ sendTimes[2] = sendTimes[1] + InputUpdateInterval + 1

\* C20: an Update that polls a DISCONNECT event and a call of Disconnect
\* leave every slot of Players, the former local one included, as it was,
\* and so what GetPlayerPos answers for every id; Connect leaves the table
\* as it was, no step changes it while LocalPlayerId stays unset, and the
\* acceptance changes only the slot it names, which it makes active: a slot
\* active at the disconnection is still active, and GetPlayerPos still
\* answers true for it, after a later Connect and acceptance.
C20_TableSurvivesDisconnect ==
    [][/\ (\/ call'.op = "Disconnect"
           \/ call'.op = "Connect"
           \/ call'.op = "Update" /\ call'.type = "DISCONNECT"
           \/ LocalPlayerId = -1 /\ LocalPlayerId' = -1)
          => /\ Players' = Players
             /\ \A i \in IdBytes : GetPlayerPos(i)' = GetPlayerPos(i)
       /\ (LocalPlayerId = -1 /\ LocalPlayerId' >= 0)
          => \A i \in DOMAIN Players :
                /\ i # LocalPlayerId' => Players'[i] = Players[i]
                /\ Players[i].Active => GetPlayerPos(i)' # <<FALSE>>
      ]_vars

\* C20, reached: accepted as player 0 again after LocalPlayerId had been
\* reset, the session still finds player 1 where an AddPlayer of the
\* earlier connection put it.
C20_StaleSlotAfterRejoin ==
    /\ Polling(call) /\ call.cmd = AcceptPlayer
    /\ call.wasId = -1 /\ LocalPlayerId = 0
    /\ GetPlayerPos(1) = <<TRUE, <<Px(300), Px(40)>> >>

=============================================================================
